---- MODULE Spec2Model ----
(***************************************************************************)
(* WhatsApp -> Twilio SIP gateway (src/index.js).                          *)
(*                                                                         *)
(* The gateway is one Node.js event loop: onIncomingRequest and the        *)
(* response callback each run to completion, so each is one action.        *)
(*                                                                         *)
(* The libraries the gateway calls are modelled by their contract:         *)
(*   sdp-transform  parse(text) yields the session object and skips lines  *)
(*                  whose type it does not know; write(obj) emits the      *)
(*                  canonical text and supplies a missing v= line.         *)
(*   sip/proxy      send(rq, cb) forwards rq downstream and calls cb on    *)
(*                  every response to it; send(rq) without a callback      *)
(*                  uses the proxy's default callback, which relays the    *)
(*                  response upstream; send(rs) relays rs upstream.        *)
(*   sip/digest     signRequest(session, rq, rs, creds) updates the        *)
(*                  session from the challenge of rs and puts the          *)
(*                  authorization on rq; it throws when rs carries no      *)
(*                  challenge for the realm of creds.                      *)
(* Via handling, retransmission and the wire format belong to the          *)
(* transport and are not modelled.                                         *)
(***************************************************************************)
EXTENDS Integers, Sequences, FiniteSets, TLC

VARIABLES
    sdp,            \* SDP pipeline: the body handed to rewriteSdp
    out,            \* SDP pipeline: rewriteSdp(sdp), rewriteSdp(rewriteSdp(sdp))
    txns,           \* one record per request handed to onIncomingRequest:
                    \*   rq       the request as it arrived
                    \*   sent     what the gateway sent downstream for it
                    \*   answers  the downstream responses to those sends
                    \*   relayed  the responses the gateway sent upstream
    sessionTwilio   \* the digest session shared by all requests

vars == <<sdp, out, txns, sessionTwilio>>

sdpVars == <<sdp, out>>
gwVars == <<txns, sessionTwilio>>

(***************************************************************************)
(* Bounds                                                                  *)
(***************************************************************************)
MaxRtp == 2         \* a=rtpmap lines per media description
MaxFmtp == 1        \* a=fmtp lines per media description
MaxRequests == 1    \* inbound requests
MaxAnswers == 3     \* downstream responses

(***************************************************************************)
(* Sequence helpers (Array.prototype.includes / filter / find)             *)
(***************************************************************************)
Includes(s, x) == \E i \in DOMAIN s : s[i] = x

SeqsUpTo(S, n) == UNION {[1..k -> S] : k \in 0..n}

(***************************************************************************)
(* SDP bodies.  A body is text; the model keeps of the text what           *)
(* sdp-transform reads and writes: whether it is parseable at all,         *)
(* whether it has a v= line, whether it has lines of a type the grammar    *)
(* does not know, and its media descriptions.                              *)
(***************************************************************************)
NoRtcp == "undefined"

RtpEntries ==
    { [payload |-> 0,   codec |-> "PCMU",            rate |-> 8000],
      [payload |-> 101, codec |-> "telephone-event", rate |-> 8000],
      [payload |-> 101, codec |-> "opus",            rate |-> 48000],
      [payload |-> 111, codec |-> "opus",            rate |-> 48000] }

FmtpEntries ==
    { [payload |-> 101, config |-> "0-16"],
      [payload |-> 101, config |-> "minptime=10"],
      [payload |-> 111, config |-> "minptime=10"] }

PayloadLists == { <<111>>, <<0, 8, 101>>, <<111, 101, 0>> }

Medias ==
    [ type     : {"audio", "video"},
      payloads : PayloadLists,
      rtp      : SeqsUpTo(RtpEntries, MaxRtp),
      fmtp     : SeqsUpTo(FmtpEntries, MaxFmtp),
      rtcp     : {NoRtcp, "9 IN IP4 0.0.0.0"} ]

VideoSample ==
    [ type |-> "video", payloads |-> <<111>>,
      rtp |-> <<[payload |-> 111, codec |-> "opus", rate |-> 48000]>>,
      fmtp |-> <<[payload |-> 111, config |-> "minptime=10"]>>,
      rtcp |-> "9 IN IP4 0.0.0.0" ]

MediaLists ==
    {<<>>} \cup {<<m>> : m \in Medias}
           \cup {<<m, VideoSample>> : m \in Medias}
           \cup {<<VideoSample, m>> : m \in Medias}

\* content absent (rq.content is falsy)
NoBody == [kind |-> "none", version |-> FALSE, unknown |-> FALSE, media |-> <<>>]

\* a body sdp-transform throws on
BadBody == [kind |-> "bad", version |-> FALSE, unknown |-> FALSE, media |-> <<>>]

SdpBodies ==
    [ kind : {"sdp"}, version : BOOLEAN, unknown : BOOLEAN, media : MediaLists ]

Bodies == {BadBody} \cup SdpBodies

(***************************************************************************)
(* sdp-transform                                                           *)
(***************************************************************************)
ParseThrows(body) == body.kind # "sdp"

\* parse: the session object; lines of unknown type are skipped
SdpParse(body) ==
    [ version |-> IF body.version THEN 0 ELSE -1,
      media   |-> body.media ]

\* write: canonical text; a missing version is written as v=0
SdpWrite(parsed) ==
    [ kind    |-> "sdp",
      version |-> TRUE,
      unknown |-> FALSE,
      media   |-> parsed.media ]

(***************************************************************************)
(* rewriteSdp                                                              *)
(***************************************************************************)
allowedPayloads == <<0, 8, 101>>

FilterRtp(rtp) == SelectSeq(rtp, LAMBDA r : Includes(allowedPayloads, r.payload))

\* mutant: the telephone-event entry is pushed without looking for one
EnsureTelephoneEvent_Always(rtp) ==
    Append(rtp, [payload |-> 101, codec |-> "telephone-event", rate |-> 8000])

EnsureTelephoneEvent(rtp) ==
    IF ~ \E i \in DOMAIN rtp : rtp[i].payload = 101
    THEN Append(rtp, [payload |-> 101, codec |-> "telephone-event", rate |-> 8000])
    ELSE rtp

FilterFmtp(fmtp) == SelectSeq(fmtp, LAMBDA f : Includes(allowedPayloads, f.payload))

EnsureFmtp(fmtp) ==
    IF ~ \E i \in DOMAIN fmtp : fmtp[i].payload = 101
    THEN Append(fmtp, [payload |-> 101, config |-> "0-16"])
    ELSE fmtp

\* mutant: the check of media.type is left out
RewriteMedia_AnyType(media) ==
    [ media EXCEPT
        !.payloads = allowedPayloads,
        !.rtp      = EnsureTelephoneEvent(FilterRtp(media.rtp)),
        !.fmtp     = EnsureFmtp(FilterFmtp(media.fmtp)),
        !.rtcp     = NoRtcp ]

RewriteMedia(media) ==
    IF media.type = "audio"
    THEN [ media EXCEPT
             !.payloads = allowedPayloads,
             !.rtp      = EnsureTelephoneEvent(FilterRtp(media.rtp)),
             !.fmtp     = EnsureFmtp(FilterFmtp(media.fmtp)),
             !.rtcp     = NoRtcp ]
    ELSE media

\* mutant: the catch block returns an empty body instead of the original
rewriteSdp_DropsOnFailure(body) ==
    IF ParseThrows(body)
    THEN [kind |-> "none", version |-> FALSE, unknown |-> FALSE, media |-> <<>>]
    ELSE SdpWrite([SdpParse(body) EXCEPT
                     !.media = [i \in DOMAIN body.media |-> RewriteMedia(body.media[i])]])

rewriteSdp(body) ==
    IF ParseThrows(body)
    THEN body
    ELSE LET parsed == SdpParse(body)
             mapped == [parsed EXCEPT
                          !.media = [i \in DOMAIN parsed.media |->
                                        RewriteMedia(parsed.media[i])]]
         IN  SdpWrite(mapped)

(***************************************************************************)
(* SDP pipeline: rewriteSdp applied to a body, then to its own output      *)
(***************************************************************************)
SdpInit ==
    /\ sdp \in Bodies
    /\ out = <<>>
    /\ txns = <<>>
    /\ sessionTwilio = [nonce |-> "", nc |-> 0, cnonce |-> 0]

Negotiate ==
    /\ Len(out) < 2
    /\ out' = Append(out, rewriteSdp(IF out = <<>> THEN sdp ELSE out[Len(out)]))
    /\ UNCHANGED sdp


SdpNext == Negotiate /\ UNCHANGED gwVars

(***************************************************************************)
(* SIP messages, as the structured objects the sip library hands over      *)
(***************************************************************************)
\* `sip:${TWILIO_DEST}@${TWILIO_DOMAIN}`, with the destination and domain
\* of the README's example configuration
destUri == "sip:+5215541655565@nonocard.sip.twilio.com"

\* `sip:${META_USER}@${process.env.PUBLIC_IP || 'example.com'}`
gatewayContact == "sip:meta@example.com"

NoTo == [present |-> FALSE, uri |-> "", name |-> ""]
NoAuth == [nonce |-> "", nc |-> 0, cnonce |-> 0]

MediaBytes(m) ==
    12 + 3 * Len(m.payloads) + 24 * Len(m.rtp) + 16 * Len(m.fmtp)
       + (IF m.rtcp = NoRtcp THEN 0 ELSE 26)

RECURSIVE MediaListBytes(_)
MediaListBytes(ms) ==
    IF ms = <<>> THEN 0 ELSE MediaBytes(Head(ms)) + MediaListBytes(Tail(ms))

\* Buffer.byteLength of a body
ByteLength(body) ==
    CASE body.kind = "none" -> 0
      [] body.kind = "bad"  -> 7
      [] OTHER -> (IF body.version THEN 5 ELSE 0)
                  + (IF body.unknown THEN 9 ELSE 0)
                  + MediaListBytes(body.media)

OfferBody ==
    [ kind |-> "sdp", version |-> TRUE, unknown |-> TRUE,
      media |-> << [ type |-> "audio", payloads |-> <<111, 101, 0>>,
                     rtp |-> << [payload |-> 111, codec |-> "opus", rate |-> 48000],
                                [payload |-> 0, codec |-> "PCMU", rate |-> 8000] >>,
                     fmtp |-> << [payload |-> 111, config |-> "minptime=10"] >>,
                     rtcp |-> "9 IN IP4 0.0.0.0" ],
                   VideoSample >> ]

AnswerBody ==
    [ kind |-> "sdp", version |-> TRUE, unknown |-> FALSE,
      media |-> << [ type |-> "audio", payloads |-> <<0, 8, 101>>,
                     rtp |-> << [payload |-> 0, codec |-> "PCMU", rate |-> 8000] >>,
                     fmtp |-> <<>>,
                     rtcp |-> NoRtcp ] >> ]

Request(method, to, content) ==
    [ method        |-> method,
      uri           |-> "sip:business@wa.example",
      from          |-> "sip:caller@wa.example",
      to            |-> to,
      contact       |-> "sip:caller@192.0.2.1",
      content       |-> content,
      contentLength |-> ByteLength(content),
      authorization |-> NoAuth ]

CalleeTo == [present |-> TRUE, uri |-> "sip:business@wa.example", name |-> "Business"]

\* the requests the upstream party may send
Requests ==
    { Request("INVITE", CalleeTo, OfferBody),
      Request("INVITE", CalleeTo, BadBody),
      Request("INVITE", NoTo, NoBody),
      Request("ACK", CalleeTo, NoBody),
      Request("CANCEL", CalleeTo, NoBody),
      Request("BYE", NoTo, NoBody),
      Request("PRACK", CalleeTo, NoBody),
      Request("UPDATE", CalleeTo, OfferBody),
      Request("OPTIONS", CalleeTo, OfferBody) }

Response(status, reason, nonce, content) ==
    [ status |-> status, reason |-> reason, nonce |-> nonce, content |-> content ]

\* the responses the downstream party may give; nonce "" is a 401/407 that
\* carries no challenge for the configured realm
Responses ==
    { Response(180, "Ringing", "", NoBody),
      Response(200, "OK", "", AnswerBody),
      Response(401, "Unauthorized", "n1", NoBody),
      Response(407, "Proxy Authentication Required", "n2", NoBody),
      Response(401, "Unauthorized", "", NoBody) }

\* sip.makeResponse(rq, status, reason)
makeResponse(rq, status, reason) == Response(status, reason, "", NoBody)

(***************************************************************************)
(* sip/digest signRequest(session, rq, rs, creds)                          *)
(***************************************************************************)
SignThrows(rs) == rs.nonce = ""

SignSession(session, rs) ==
    IF session.nonce # rs.nonce
    THEN [nonce |-> rs.nonce, nc |-> 1, cnonce |-> session.cnonce + 1]
    ELSE [session EXCEPT !.nc = session.nc + 1]

SignRequest(session, rq, rs) ==
    [rq EXCEPT !.authorization = SignSession(session, rs)]

(***************************************************************************)
(* onIncomingRequest                                                       *)
(***************************************************************************)
\* mutant: OPTIONS is taken for an in-dialog method
IsInDialog_WithOptions(method) ==
    method \in {"ACK", "CANCEL", "BYE", "PRACK", "UPDATE", "OPTIONS"}

IsInDialog(method) == method \in {"ACK", "CANCEL", "BYE", "PRACK", "UPDATE"}

\* mutant: the content-length header is not set after the rewrite
RewriteContent_StaleLength(rq) ==
    IF rq.content.kind # "none"
    THEN [rq EXCEPT !.content = rewriteSdp(rq.content)]
    ELSE rq

\* if (rq.content) { rq.content = rewriteSdp(rq.content); content-length = ... }
RewriteContent(rq) ==
    IF rq.content.kind # "none"
    THEN LET newSdp == rewriteSdp(rq.content)
         IN  [rq EXCEPT !.content = newSdp, !.contentLength = ByteLength(newSdp)]
    ELSE rq

\* mutant: the else branch that creates a missing To header is left out
RewriteTarget_NoToCreated(rq) ==
    [ rq EXCEPT
        !.uri     = destUri,
        !.to      = IF rq.to.present THEN [rq.to EXCEPT !.uri = destUri] ELSE rq.to,
        !.contact = gatewayContact ]

\* rq.uri, To and Contact
RewriteTarget(rq) ==
    [ rq EXCEPT
        !.uri     = destUri,
        !.to      = IF rq.to.present
                    THEN [rq.to EXCEPT !.uri = destUri]
                    ELSE [present |-> TRUE, uri |-> destUri, name |-> ""],
        !.contact = gatewayContact ]

Send(rq, callback, cause) == [rq |-> rq, callback |-> callback, cause |-> cause]

Reply(rs, cause) == [rs |-> rs, cause |-> cause]

Txn(rq, sent, relayed) ==
    [rq |-> rq, sent |-> sent, answers |-> <<>>, relayed |-> relayed]

OnInvite(rq) ==
    /\ rq.method = "INVITE"
    /\ txns' = Append(txns,
                 Txn(rq, <<Send(RewriteTarget(RewriteContent(rq)),
                                "defaultProxyCallback", 0)>>, <<>>))
    /\ UNCHANGED sessionTwilio

\* mutant: in-dialog requests go through the INVITE rewriting
OnInDialog_Rewritten(rq) ==
    /\ rq.method # "INVITE"
    /\ IsInDialog(rq.method)
    /\ txns' = Append(txns,
                 Txn(rq, <<Send(RewriteTarget(RewriteContent(rq)), "default", 0)>>, <<>>))
    /\ UNCHANGED sessionTwilio

\* mutant: in-dialog requests are signed with the shared session
OnInDialog_Signed(rq) ==
    /\ rq.method # "INVITE"
    /\ IsInDialog(rq.method)
    /\ sessionTwilio' = [sessionTwilio EXCEPT !.nc = sessionTwilio.nc + 1]
    /\ txns' = Append(txns,
                 Txn(rq, <<Send([rq EXCEPT !.authorization = sessionTwilio'],
                                "default", 0)>>, <<>>))

OnInDialog(rq) ==
    /\ rq.method # "INVITE"
    /\ IsInDialog(rq.method)
    /\ txns' = Append(txns, Txn(rq, <<Send(rq, "default", 0)>>, <<>>))
    /\ UNCHANGED sessionTwilio

OnOther(rq) ==
    /\ rq.method # "INVITE"
    /\ ~ IsInDialog(rq.method)
    /\ txns' = Append(txns,
                 Txn(rq, <<>>, <<Reply(makeResponse(rq, 405, "Method Not Allowed"), 0)>>))
    /\ UNCHANGED sessionTwilio

(***************************************************************************)
(* Responses from the downstream party                                     *)
(***************************************************************************)
AnswerCount == LET RECURSIVE Sum(_)
                   Sum(t) == IF t = 0 THEN 0 ELSE Len(txns[t].answers) + Sum(t - 1)
               IN  Sum(Len(txns))

\* the request object of a transaction as it is now: every change to it
\* is followed by a send
CurrentRq(x) == x.sent[Len(x.sent)].rq

\* mutant: the callback relays final responses only
DefaultProxyCallback_FinalOnly(t, i, rs) ==
    LET x == txns[t]
        k == Len(x.answers) + 1
        heard == Append(x.answers, [to |-> i, rs |-> rs])
    IN  /\ AnswerCount < MaxAnswers
        /\ x.sent[i].callback = "defaultProxyCallback"
        /\ IF rs.status = 401 \/ rs.status = 407
           THEN IF SignThrows(rs)
                THEN /\ txns' = [txns EXCEPT ![t].answers = heard]
                     /\ UNCHANGED sessionTwilio
                ELSE /\ sessionTwilio' = SignSession(sessionTwilio, rs)
                     /\ txns' = [txns EXCEPT
                          ![t].answers = heard,
                          ![t].sent = Append(x.sent,
                              Send(SignRequest(sessionTwilio, CurrentRq(x), rs),
                                   "default", k))]
           ELSE /\ txns' = [txns EXCEPT
                     ![t].answers = heard,
                     ![t].relayed = IF rs.status >= 200
                                    THEN Append(x.relayed, Reply(rs, k))
                                    ELSE x.relayed]
                /\ UNCHANGED sessionTwilio

\* mutant: each challenge is signed against a new, empty session
DefaultProxyCallback_FreshSession(t, i, rs) ==
    LET x == txns[t]
        k == Len(x.answers) + 1
        heard == Append(x.answers, [to |-> i, rs |-> rs])
    IN  /\ AnswerCount < MaxAnswers
        /\ x.sent[i].callback = "defaultProxyCallback"
        /\ IF rs.status = 401 \/ rs.status = 407
           THEN IF SignThrows(rs)
                THEN /\ txns' = [txns EXCEPT ![t].answers = heard]
                     /\ UNCHANGED sessionTwilio
                ELSE /\ sessionTwilio' = SignSession(NoAuth, rs)
                     /\ txns' = [txns EXCEPT
                          ![t].answers = heard,
                          ![t].sent = Append(x.sent,
                              Send(SignRequest(NoAuth, CurrentRq(x), rs),
                                   "default", k))]
           ELSE /\ txns' = [txns EXCEPT
                     ![t].answers = heard,
                     ![t].relayed = Append(x.relayed, Reply(rs, k))]
                /\ UNCHANGED sessionTwilio

\* mutant: the request is signed against a copy of the session, which
\* itself stays as it was
DefaultProxyCallback_SessionCopy(t, i, rs) ==
    LET x == txns[t]
        k == Len(x.answers) + 1
        heard == Append(x.answers, [to |-> i, rs |-> rs])
    IN  /\ AnswerCount < MaxAnswers
        /\ x.sent[i].callback = "defaultProxyCallback"
        /\ IF rs.status = 401 \/ rs.status = 407
           THEN IF SignThrows(rs)
                THEN /\ txns' = [txns EXCEPT ![t].answers = heard]
                     /\ UNCHANGED sessionTwilio
                ELSE /\ UNCHANGED sessionTwilio
                     /\ txns' = [txns EXCEPT
                          ![t].answers = heard,
                          ![t].sent = Append(x.sent,
                              Send(SignRequest(sessionTwilio, CurrentRq(x), rs),
                                   "default", k))]
           ELSE /\ txns' = [txns EXCEPT
                     ![t].answers = heard,
                     ![t].relayed = Append(x.relayed, Reply(rs, k))]
                /\ UNCHANGED sessionTwilio

\* the callback given with the first send of an INVITE, called with a
\* response rs to the i-th send of transaction t
DefaultProxyCallback(t, i, rs) ==
    LET x == txns[t]
        k == Len(x.answers) + 1
        heard == Append(x.answers, [to |-> i, rs |-> rs])
    IN  /\ AnswerCount < MaxAnswers
        /\ x.sent[i].callback = "defaultProxyCallback"
        /\ IF rs.status = 401 \/ rs.status = 407
           THEN IF SignThrows(rs)
                THEN /\ txns' = [txns EXCEPT ![t].answers = heard]
                     /\ UNCHANGED sessionTwilio
                ELSE /\ sessionTwilio' = SignSession(sessionTwilio, rs)
                     /\ txns' = [txns EXCEPT
                          ![t].answers = heard,
                          ![t].sent = Append(x.sent,
                              Send(SignRequest(sessionTwilio, CurrentRq(x), rs),
                                   "default", k))]
           ELSE /\ txns' = [txns EXCEPT
                     ![t].answers = heard,
                     ![t].relayed = Append(x.relayed, Reply(rs, k))]
                /\ UNCHANGED sessionTwilio

\* the proxy's own callback, used for a request sent without one
LibraryDefaultCallback(t, i, rs) ==
    LET x == txns[t]
        k == Len(x.answers) + 1
    IN  /\ AnswerCount < MaxAnswers
        /\ x.sent[i].callback = "default"
        /\ txns' = [txns EXCEPT
             ![t].answers = Append(x.answers, [to |-> i, rs |-> rs]),
             ![t].relayed = Append(x.relayed, Reply(rs, k))]
        /\ UNCHANGED sessionTwilio

(***************************************************************************)
(* Specifications                                                          *)
(***************************************************************************)
GwInit ==
    /\ txns = <<>>
    /\ sessionTwilio = NoAuth

Init ==
    /\ GwInit
    /\ sdp = NoBody
    /\ out = <<>>

Next ==
    \/ \E rq \in Requests :
            Len(txns) < MaxRequests /\ OnInvite(rq) /\ UNCHANGED sdpVars
    \/ \E rq \in Requests :
            Len(txns) < MaxRequests /\ OnInDialog(rq) /\ UNCHANGED sdpVars
    \/ \E rq \in Requests :
            Len(txns) < MaxRequests /\ OnOther(rq) /\ UNCHANGED sdpVars
    \/ \E t \in DOMAIN txns : \E i \in DOMAIN txns[t].sent : \E rs \in Responses :
            DefaultProxyCallback(t, i, rs) /\ UNCHANGED sdpVars
    \/ \E t \in DOMAIN txns : \E i \in DOMAIN txns[t].sent : \E rs \in Responses :
            LibraryDefaultCallback(t, i, rs) /\ UNCHANGED sdpVars

Spec == Init /\ [][Next]_vars

SpecSdp == SdpInit /\ [][SdpNext]_vars

\* Several calls at once: one request more than MaxRequests, drawn from a
\* smaller set of requests
CallRequests ==
    { Request("INVITE", NoTo, NoBody),
      Request("CANCEL", CalleeTo, NoBody),
      Request("OPTIONS", CalleeTo, OfferBody) }

NextCalls ==
    \/ \E rq \in CallRequests :
            Len(txns) <= MaxRequests /\ OnInvite(rq) /\ UNCHANGED sdpVars
    \/ \E rq \in CallRequests :
            Len(txns) <= MaxRequests /\ OnInDialog(rq) /\ UNCHANGED sdpVars
    \/ \E rq \in CallRequests :
            Len(txns) <= MaxRequests /\ OnOther(rq) /\ UNCHANGED sdpVars
    \/ \E t \in DOMAIN txns : \E i \in DOMAIN txns[t].sent : \E rs \in Responses :
            DefaultProxyCallback(t, i, rs) /\ UNCHANGED sdpVars
    \/ \E t \in DOMAIN txns : \E i \in DOMAIN txns[t].sent : \E rs \in Responses :
            LibraryDefaultCallback(t, i, rs) /\ UNCHANGED sdpVars

SpecCalls == Init /\ [][NextCalls]_vars

(***************************************************************************)
(* Properties                                                              *)
(***************************************************************************)
Invites == {t \in DOMAIN txns : txns[t].rq.method = "INVITE"}

IsChallenge(rs) == rs.status = 401 \/ rs.status = 407

Elems(s) == {s[i] : i \in DOMAIN s}

AudioOut(body) == {m \in Elems(body.media) : m.type = "audio"}

\* C1: after rewriteSdp every audio media description of a parseable body
\* has payload set {0, 8, 101}, and the fmtp of payload 101 is "0-16"
\* whatever the input carried for 101.
C1_AudioPayloadsAndFmtp ==
    (out # <<>> /\ ~ ParseThrows(sdp)) =>
        \A m \in AudioOut(out[1]) :
            /\ Elems(m.payloads) = {0, 8, 101}
            /\ {f.config : f \in {g \in Elems(m.fmtp) : g.payload = 101}} = {"0-16"}

\* C2: rewriteSdp is idempotent: applied to its own output it returns that
\* output, for parseable and unparseable bodies alike.
C2_Idempotent ==
    Len(out) = 2 => out[2] = out[1]

C2_Witness ==
    /\ Len(out) = 2
    /\ ~ ParseThrows(sdp)
    /\ out[1] # sdp
    /\ \E m \in Elems(sdp.media) : m.type = "audio" /\ Len(m.rtp) = MaxRtp

\* C3: an INVITE whose body makes the SDP parser throw is forwarded with
\* that body unchanged and with its routing fields rewritten, and the
\* gateway answers it with no status of its own.
C3_FailOpen ==
    \A t \in Invites :
        ParseThrows(txns[t].rq.content) /\ txns[t].rq.content.kind # "none" =>
            /\ Len(txns[t].sent) >= 1
            /\ txns[t].sent[1].rq.content = txns[t].rq.content
            /\ txns[t].sent[1].rq.uri = destUri
            /\ txns[t].sent[1].rq.to.uri = destUri
            /\ \A r \in Elems(txns[t].relayed) : r.cause # 0

C3_Witness ==
    \E t \in Invites :
        /\ txns[t].rq.content.kind = "bad"
        /\ Len(txns[t].sent) >= 1
        /\ \E r \in Elems(txns[t].relayed) : r.rs.status = 200

\* C4: every request sent downstream for an INVITE, the first send and any
\* resend, has request-URI and To URI sip:{destination}@{domain} and the
\* From header of the inbound INVITE.
C4_InviteRetargeted ==
    \A t \in Invites : \A s \in Elems(txns[t].sent) :
        /\ s.rq.uri = destUri
        /\ s.rq.to.present
        /\ s.rq.to.uri = destUri
        /\ s.rq.from = txns[t].rq.from

C4_Witness ==
    \E t \in Invites :
        /\ ~ txns[t].rq.to.present
        /\ Len(txns[t].sent) >= 2
        /\ txns[t].sent[2].rq.authorization # NoAuth

\* C5: an ACK, CANCEL, BYE, PRACK or UPDATE is sent on once, equal to the
\* received request in request-URI, every header and body.
C5_InDialogVerbatim ==
    \A t \in DOMAIN txns :
        txns[t].rq.method \in {"ACK", "CANCEL", "BYE", "PRACK", "UPDATE"} =>
            /\ Len(txns[t].sent) = 1
            /\ txns[t].sent[1].rq = txns[t].rq

C5_Witness ==
    \E t \in DOMAIN txns :
        /\ txns[t].rq.method = "UPDATE"
        /\ txns[t].rq.content.kind = "sdp"
        /\ Len(txns[t].sent) = 1

\* C6: a request of any other method gets exactly one 405 Method Not
\* Allowed and nothing is sent downstream for it.
C6_MethodNotAllowed ==
    \A t \in DOMAIN txns :
        txns[t].rq.method \notin {"INVITE", "ACK", "CANCEL", "BYE", "PRACK", "UPDATE"} =>
            /\ txns[t].sent = <<>>
            /\ Len(txns[t].relayed) = 1
            /\ txns[t].relayed[1].rs.status = 405
            /\ txns[t].relayed[1].rs.reason = "Method Not Allowed"

C6_Witness ==
    \E t \in DOMAIN txns :
        /\ txns[t].rq.method = "OPTIONS"
        /\ Len(txns[t].relayed) = 1

\* C7: every downstream response to a forwarded INVITE that is neither 401
\* nor 407 is relayed upstream once, with status, headers and body as
\* received.
C7_ResponsesRelayedUnchanged ==
    \A t \in Invites : \A k \in DOMAIN txns[t].answers :
        ~ IsChallenge(txns[t].answers[k].rs) =>
            /\ Cardinality({j \in DOMAIN txns[t].relayed :
                              txns[t].relayed[j].cause = k}) = 1
            /\ \A j \in DOMAIN txns[t].relayed :
                  txns[t].relayed[j].cause = k =>
                      txns[t].relayed[j].rs = txns[t].answers[k].rs

C7_Witness ==
    \E t \in Invites : \E k, l \in DOMAIN txns[t].answers :
        /\ txns[t].answers[k].rs.status = 180
        /\ txns[t].answers[k].to = 1
        /\ txns[t].answers[l].rs.status = 200
        /\ txns[t].answers[l].rs.content.kind = "sdp"
        /\ Len(txns[t].relayed) = 2

FinalAnswer(rs) == rs.status >= 200 /\ ~ IsChallenge(rs)

\* the INVITE is still outstanding when its k-th answer arrives
Outstanding(x, k) == \A j \in 1..(k - 1) : ~ FinalAnswer(x.answers[j].rs)

Unsigned(rq) == [rq EXCEPT !.authorization = NoAuth]

\* C8: every 401/407 that carries a challenge and arrives for an
\* outstanding INVITE is answered by a signed resend: the rewritten INVITE
\* as first sent (request-URI, To, From, body) with the authorization for
\* that challenge added.
C8_ChallengeSignedAndResent ==
    \A t \in Invites : \A k \in DOMAIN txns[t].answers :
        LET x == txns[t]
            rs == x.answers[k].rs
        IN  (IsChallenge(rs) /\ ~ SignThrows(rs) /\ Outstanding(x, k)) =>
                \E s \in Elems(x.sent) :
                    /\ s.cause = k
                    /\ s.rq.authorization.nonce = rs.nonce
                    /\ Unsigned(s.rq) = x.sent[1].rq

\* the challenges the gateway could sign
Challenges(x) ==
    {k \in DOMAIN x.answers :
        IsChallenge(x.answers[k].rs) /\ ~ SignThrows(x.answers[k].rs)}

Resends(x) == {i \in DOMAIN x.sent : x.sent[i].cause # 0}

GatewayFailures(x) == {j \in DOMAIN x.relayed : x.relayed[j].rs.status >= 500}

\* C9: once an INVITE has received more challenges than the retry cap
\* (2), exactly one gateway-failure status has been relayed upstream for
\* it and it has been resent no more often than the cap allows.
C9_RetryCapEnforced ==
    \A t \in Invites :
        Cardinality(Challenges(txns[t])) > 2 =>
            /\ Cardinality(GatewayFailures(txns[t])) = 1
            /\ Cardinality(Resends(txns[t])) <= 2

FinalsRelayed(x) == {j \in DOMAIN x.relayed : FinalAnswer(x.relayed[j].rs)}

\* C10: for every INVITE at most one final non-challenge response is
\* relayed upstream, and exactly one once the downstream party has given
\* a final non-challenge response.
C10_ExactlyOneFinal ==
    \A t \in Invites :
        /\ Cardinality(FinalsRelayed(txns[t])) <= 1
        /\ (\E k \in DOMAIN txns[t].answers : FinalAnswer(txns[t].answers[k].rs))
              => Cardinality(FinalsRelayed(txns[t])) = 1

\* a fault in the callback: a 401/407 given to defaultProxyCallback that
\* signRequest throws on
CallbackFault(x, k) ==
    /\ IsChallenge(x.answers[k].rs)
    /\ SignThrows(x.answers[k].rs)
    /\ x.sent[x.answers[k].to].callback = "defaultProxyCallback"

\* C11: every fault raised while a request is processed, in the handler or
\* later in the response callback, is answered by exactly one 500 to the
\* originator of the request.
C11_FaultAnsweredOnce ==
    \A t \in DOMAIN txns : \A k \in DOMAIN txns[t].answers :
        CallbackFault(txns[t], k) =>
            Cardinality({j \in DOMAIN txns[t].relayed :
                            /\ txns[t].relayed[j].cause = k
                            /\ txns[t].relayed[j].rs.status = 500}) = 1

\* C12: a 401/407 whose challenge cannot be parsed causes no resend and a
\* server-error status upstream.
C12_BadChallengeRejected ==
    \A t \in Invites : \A k \in DOMAIN txns[t].answers :
        CallbackFault(txns[t], k) =>
            /\ \A s \in Elems(txns[t].sent) : s.cause # k
            /\ \E r \in Elems(txns[t].relayed) : r.cause = k /\ r.rs.status >= 500

C14_NoChallengeUpstream ==
    \A t \in Invites : \A r \in Elems(txns[t].relayed) : ~ IsChallenge(r.rs)

\* the signed requests: transaction and index of every resend
SignedSends == {p \in (DOMAIN txns) \X (1..(MaxAnswers + 2)) :
                   /\ p[2] \in DOMAIN txns[p[1]].sent
                   /\ txns[p[1]].sent[p[2]].cause # 0}

AuthOf(p) == txns[p[1]].sent[p[2]].rq.authorization

Unanswered(x) ==
    {i \in DOMAIN x.sent :
        \A k \in DOMAIN x.answers : x.answers[k].to = i => x.answers[k].rs.status < 200}

\* C16: an INVITE never has more than one downstream request outstanding.
C16_OneOutstanding ==
    \A t \in Invites : Cardinality(Unanswered(txns[t])) <= 1

\* the handler runs for a request that has arrived
HandleRequest ==
    \E rq \in Requests :
        /\ Len(txns) < MaxRequests
        /\ (OnInvite(rq) \/ OnInDialog(rq) \/ OnOther(rq))
        /\ UNCHANGED sdpVars

\* the event loop runs the handler of every request that has arrived; the
\* downstream party is free to stay silent
SpecLive == Init /\ [][Next]_vars /\ WF_vars(HandleRequest)

InviteForwarded(t) == t \in Invites /\ Len(txns[t].sent) >= 1

FinalRelayed(t) ==
    /\ t \in DOMAIN txns
    /\ \E r \in Elems(txns[t].relayed) : r.rs.status >= 200

\* C17: every forwarded INVITE eventually gets a final response upstream,
\* also when the downstream party stays silent.
C17_BoundedWait ==
    \A t \in 1..MaxRequests : InviteForwarded(t) ~> FinalRelayed(t)

\* C18: the shared session changes only in a step in which an INVITE
\* receives a 401/407; handling a request (CANCEL, ACK, BYE, PRACK, UPDATE,
\* an unsupported method) leaves it as it was and signs nothing.
C18_SessionFrame ==
    [][/\ sessionTwilio' # sessionTwilio =>
              \E t \in DOMAIN txns :
                  /\ txns[t].rq.method = "INVITE"
                  /\ Len(txns'[t].answers) = Len(txns[t].answers) + 1
                  /\ IsChallenge(txns'[t].answers[Len(txns'[t].answers)].rs)
       /\ Len(txns') > Len(txns) =>
              /\ sessionTwilio' = sessionTwilio
              /\ txns'[Len(txns')].rq.method # "INVITE" =>
                    \A s \in Elems(txns'[Len(txns')].sent) :
                        s.rq.authorization = NoAuth]_vars

C18_Witness ==
    \E t \in DOMAIN txns :
        /\ t > 1
        /\ txns[t].rq.method = "CANCEL"
        /\ Len(txns[t].sent) = 1
        /\ \E k \in DOMAIN txns[t].answers : txns[t].answers[k].rs.nonce = "n1"
        /\ sessionTwilio.nonce = "n2"
        /\ sessionTwilio.nc = 1

\* C19: rewriteSdp keeps the number and order of the media descriptions
\* and leaves every description that is not audio as it was (payload
\* list, rtpmap, fmtp, rtcp).
C19_NonAudioUntouched ==
    (out # <<>> /\ ~ ParseThrows(sdp)) =>
        /\ Len(out[1].media) = Len(sdp.media)
        /\ \A i \in DOMAIN sdp.media :
              /\ out[1].media[i].type = sdp.media[i].type
              /\ sdp.media[i].type # "audio" => out[1].media[i] = sdp.media[i]

C19_Witness ==
    /\ out # <<>>
    /\ Len(sdp.media) = 2
    /\ sdp.media[1].type = "video"
    /\ sdp.media[1].rtcp # NoRtcp
    /\ sdp.media[2].type = "audio"
    /\ out[1].media[2] # sdp.media[2]

\* C20: a forwarded INVITE that came with a body has content-length equal
\* to the byte length of the body it carries; one that came without a
\* body is forwarded without one, its content-length as received, and
\* with request-URI, To and Contact rewritten.
C20_ContentLength ==
    \A t \in Invites : \A s \in Elems(txns[t].sent) :
        IF txns[t].rq.content.kind # "none"
        THEN s.rq.contentLength = ByteLength(s.rq.content)
        ELSE /\ s.rq.content = txns[t].rq.content
             /\ s.rq.contentLength = txns[t].rq.contentLength
             /\ s.rq.uri = destUri
             /\ s.rq.to.uri = destUri
             /\ s.rq.contact = gatewayContact

C20_Witness ==
    \E t \in Invites :
        /\ txns[t].rq.content.kind = "sdp"
        /\ Len(txns[t].sent) >= 1
        /\ txns[t].sent[1].rq.contentLength # txns[t].rq.contentLength

====
